---- MODULE Spec2Model ----
(***************************************************************************)
(* PSA export of io_import_scene_unreal_psa_psk_283/psa_exporter.py:       *)
(* psa_export -> build_psa -> write_psa, as a state machine.               *)
(*                                                                         *)
(* Text is a tuple of one-character strings, so that str.strip and the     *)
(* Windows-1252 encoding are computed on the characters.  Frame times are  *)
(* exact rationals: a numerator over the denominator `den` of the          *)
(* sequence's frame_step.                                                  *)
(***************************************************************************)
EXTENDS Integers, Sequences, FiniteSets, TLC

\* ------------------------------------------------------------------ bounds
MaxBones == 2
MaxSeqs == 2
FrameSpan == 1
MaxQuota == 3
MaxWriteKeys == 2

\* The greatest data_count of a PSK header and the greatest number of vertex
\* records in a PSK file's vertex section
MaxVerts == 2

\* The greatest number of 12-byte records after the second header of a PSK file
MaxTail == 2

\* ------------------------------------------------------- program constants
SectionTypeFlags == 1999801
DefaultFps == 30
SizeofBone == 120
SizeofSequence == 168
SizeofKey == 32

\* sizeof(Section): 20 bytes of name and three int32
SizeofSection == 32

\* The bytes of one vertex, Struct('3f')
SizeofVertex == 12

\* The bytes of an int32 or float32 field
SizeofField == 4

\* ------------------------------------------------------------------ inputs
NoAction == <<>>
NoParent == 0

\* Characters a name is made of; "W" stands for a character outside
\* Windows-1252 (for example the Greek capital omega).
Unencodable == {"W"}
Whitespace == {" "}

\* Names of the actions handed to the exporter (export_sequence.name before
\* prefix and suffix are added).
RawNames == { <<"A">>, <<"A", " ">>, <<"B">>, <<"W">> }

\* options.sequence_name_prefix: '' or the file name part followed by '_'.
Prefixes == { <<>>, <<"f", "_">> }

\* Names of the armature's bones, by position; BadBoneName replaces one of
\* them when the armature has a bone whose name cannot be encoded.
BoneNamePool == << <<"r">>, <<"m">>, <<"t">>, <<"u">> >>
BadBoneName == <<"W", "b">>

\* compression_ratio in (0, 1], as numerator and denominator.
Ratios == { <<1, 4>>, <<1, 2>>, <<1, 1>> }

Frames == (0 - FrameSpan)..FrameSpan
Quotas == 0..MaxQuota

VARIABLES
    pc,                  \* position in psa_export / build_psa / write_psa
    caller,              \* "psa_export" or "build_psa" (called directly)
    entry,               \* frame and action when the call was made
    nSeqs,               \* len(options.sequences)
    prefix,              \* options.sequence_name_prefix
    psaBones,            \* psa.bones
    psaSequences,        \* psa.sequences (ordered dict: <<key, record>> pairs)
    psaKeys,             \* psa.keys
    poseBones,           \* pose_bones (name and parent's name, in export order)
    frameCurrent,        \* context.scene.frame_current
    subframe,            \* context.scene.frame_subframe, <<num, den>>
    action,              \* options.animation_data.action
    saved,               \* saved_frame_current, saved_action
    frameStartIndex,     \* frame_start_index
    seqIndex,            \* export_sequence_index
    cur,                 \* locals of the current iteration of the sequence loop
    processed,           \* names of the sequences whose iteration completed
    file,                \* the output path: created?, what was written
    error,               \* the exception or error message that ended the call
    bones,               \* bones: the exported Bone objects, [name, parent]
    rootMotion,          \* options.root_motion
    imp                  \* pskimport: the file, the read position, the outcome

vars == << pc, caller, entry, nSeqs, prefix, psaBones, psaSequences,
           psaKeys, poseBones, frameCurrent, subframe, action, saved,
           frameStartIndex, seqIndex, cur, processed, file, error, bones,
           rootMotion, imp >>

\* ----------------------------------------------------------------- helpers
Max(a, b) == IF a >= b THEN a ELSE b

Abs(a) == IF a >= 0 THEN a ELSE 0 - a

\* int(x) of a float x = num/den, den > 0: truncation toward zero.
PyInt(num, den) == IF num >= 0 THEN num \div den ELSE 0 - ((0 - num) \div den)

\* x % 1.0 of a float x = num/den, den > 0: the result has the sign of the
\* divisor, so it is in [0, 1); returned as a numerator over den.
PyMod1(num, den) == num % den

\* round(x) of a float x = num/den, den > 0: round half to even.
PyRound(num, den) ==
    LET fl == num \div den
        r2 == 2 * (num - fl * den)
    IN  IF r2 < den THEN fl
        ELSE IF r2 > den THEN fl + 1
        ELSE IF fl % 2 = 0 THEN fl ELSE fl + 1

RECURSIVE LStrip(_)
LStrip(s) == IF s # <<>> /\ Head(s) \in Whitespace THEN LStrip(Tail(s)) ELSE s

RECURSIVE RStrip(_)
RStrip(s) ==
    IF s # <<>> /\ s[Len(s)] \in Whitespace
    THEN RStrip(SubSeq(s, 1, Len(s) - 1))
    ELSE s

\* str.strip()
Strip(s) == RStrip(LStrip(s))

\* bytes(name, encoding='windows-1252') succeeds
Encodable(s) == \A i \in 1..Len(s) : s[i] \notin Unencodable

\* list.index(x): the first position (1-based), 0 for ValueError
IndexOf(list, x) ==
    IF \E i \in 1..Len(list) : list[i] = x
    THEN CHOOSE i \in 1..Len(list) :
            list[i] = x /\ \A j \in 1..(i - 1) : list[j] # x
    ELSE 0

\* The items of an ordered dict are <<key, value>> pairs in insertion order;
\* d[key] = value replaces the value of an existing key where it stands.
DictSet(d, key, value) ==
    IF \E i \in 1..Len(d) : d[i][1] = key
    THEN [i \in 1..Len(d) |-> IF d[i][1] = key THEN <<key, value>> ELSE d[i]]
    ELSE Append(d, <<key, value>>)

\* list(d.values())
DictValues(d) == [i \in 1..Len(d) |-> d[i][2]]

\* ---------------------------------------------------------- the armature
\* An armature is a list of bones [name, parent]; parent is the position of
\* the parent bone in the armature, NoParent for a bone without one.
RECURSIVE Up(_, _, _)
Up(parents, i, k) ==
    IF k = 0 \/ i = NoParent THEN i ELSE Up(parents, parents[i], k - 1)

\* bone.parent links form a forest (no bone is its own ancestor)
ParentMaps(n) ==
    { p \in [1..n -> 0..n] : \A i \in 1..n : Up(p, i, n) = NoParent }

Armature(n, parents, bad) ==
    [i \in 1..n |->
        [name |-> IF i = bad THEN BadBoneName ELSE BoneNamePool[i],
         parent |-> parents[i]]]

\* Lists of distinct positions of 1..n, of every length: what the bone filter
\* may select, in the order it returns the names.
Selections(n) ==
    UNION { { s \in [1..m -> 1..n] : \A i, j \in 1..m : s[i] = s[j] => i = j }
            : m \in 0..n }

Permutations1(n) == { s \in Selections(n) : Len(s) = n }

\* [x.name for x in bones]
BoneNames(arm) == [i \in 1..Len(arm) |-> arm[i].name]

\* The pose bones left in the order of armature_object.pose.bones
SortPoseBones_Unsorted(bone_names, pose) == pose

\* pose_bones = [(bone_names.index(bone.name), bone) ...]; sort by index;
\* the pose bones come back in the order of the armature bones.
SortPoseBones(bone_names, pose) ==
    [k \in 1..Len(pose) |->
        CHOOSE b \in { pose[i] : i \in 1..Len(pose) } :
            IndexOf(bone_names, b.name) = k]

\* bone.parent of a bone without parent
NoBone == <<>>

\* armature_object.pose.bones in the order of the armature bones: each pose
\* bone with its name and the name of its parent
PoseBonesOf(arm) ==
    [i \in 1..Len(arm) |->
        [name |-> arm[i].name,
         parent |-> IF arm[i].parent = NoParent THEN NoBone
                    ELSE arm[arm[i].parent].name]]

\* bones = [bones[bone_index] for bone_index in bone_indices]: the exported
\* bones, each with its name and the name of its parent in the armature.
ExportedBones(arm, sel) ==
    [k \in 1..Len(sel) |->
        [name |-> arm[sel[k]].name,
         parent |-> IF arm[sel[k]].parent = NoParent THEN NoBone
                    ELSE arm[arm[sel[k]].parent].name]]

\* The bone loop without the increment of the parent's children_count
RECURSIVE BuildBoneRecords_NoCount(_, _, _, _)
BuildBoneRecords_NoCount(arm, sel, k, acc) ==
    IF k > Len(sel) THEN [err |-> "", bones |-> acc]
    ELSE
      LET bone == arm[sel[k]]
          q == IndexOf(sel, bone.parent)
      IN  IF ~Encodable(bone.name)
          THEN [err |-> "BoneNameNotEncodable", bones |-> acc]
          ELSE IF q = 0
          THEN BuildBoneRecords_NoCount(arm, sel, k + 1,
                  Append(acc, [name |-> bone.name, parent_index |-> 0,
                               children_count |-> 0]))
          ELSE IF q > Len(acc)
          THEN [err |-> "IndexError", bones |-> acc]
          ELSE BuildBoneRecords_NoCount(arm, sel, k + 1,
                  Append(acc, [name |-> bone.name, parent_index |-> q - 1,
                               children_count |-> 0]))

\* The loop `for bone in bones` of build_psa over the exported bones
\* (sel: their positions in the armature), from the k-th on.  acc is
\* psa.bones so far.  parent_index and children_count are the values the
\* code stores (0-based parent index).
RECURSIVE BuildBoneRecords(_, _, _, _)
BuildBoneRecords(arm, sel, k, acc) ==
    IF k > Len(sel) THEN [err |-> "", bones |-> acc]
    ELSE
      LET bone == arm[sel[k]]
          q == IndexOf(sel, bone.parent)    \* bones.index(bone.parent)
      IN  IF ~Encodable(bone.name)
          THEN [err |-> "BoneNameNotEncodable", bones |-> acc]
          ELSE IF q = 0                     \* ValueError
          THEN BuildBoneRecords(arm, sel, k + 1,
                  Append(acc, [name |-> bone.name, parent_index |-> 0,
                               children_count |-> 0]))
          ELSE IF q > Len(acc)              \* psa.bones[parent_index]
          THEN [err |-> "IndexError", bones |-> acc]
          ELSE BuildBoneRecords(arm, sel, k + 1,
                  Append([acc EXCEPT ![q].children_count = @ + 1],
                         [name |-> bone.name, parent_index |-> q - 1,
                          children_count |-> 0]))

\* ------------------------------------------------------- sequence sampling
\* frame_count with the product rounded to the nearest integer instead of
\* truncated
FrameCount_Rounded(frame_start, frame_end, key_quota, ratio) ==
    LET frame_count_raw == Abs(frame_end - frame_start) + 1
    IN  Max(key_quota, PyRound(frame_count_raw * ratio[1], ratio[2]))

\* frame_count of one export sequence
FrameCount(frame_start, frame_end, key_quota, ratio) ==
    LET frame_count_raw == Abs(frame_end - frame_start) + 1
    IN  Max(key_quota, PyInt(frame_count_raw * ratio[1], ratio[2]))

\* frame_step without the negation for a reversed range
FrameStep_NoReverse(frame_start, frame_end, frame_count) ==
    LET frame_extents == Abs(frame_end - frame_start)
    IN  IF frame_count - 1 = 0 THEN <<0, 1>>
        ELSE IF frame_count - 1 > 0
        THEN <<frame_extents, frame_count - 1>>
        ELSE <<0 - frame_extents, 1 - frame_count>>

\* frame_step as <<numerator, denominator>> with a positive denominator:
\* frame_extents / (frame_count - 1), 0.0 on ZeroDivisionError, negated for
\* a reversed range.
FrameStep(frame_start, frame_end, frame_count) ==
    LET frame_extents == Abs(frame_end - frame_start)
        step == IF frame_count - 1 = 0 THEN <<0, 1>>
                ELSE IF frame_count - 1 > 0
                THEN <<frame_extents, frame_count - 1>>
                ELSE <<0 - frame_extents, 1 - frame_count>>
    IN  IF frame_start > frame_end THEN <<0 - step[1], step[2]>> ELSE step

NoCur ==
    [name |-> <<>>, frame_start |-> 0, frame_end |-> 0, key_quota |-> 0,
     ratio |-> <<1, 1>>, frame_count |-> 0, step |-> <<0, 1>>,
     frame |-> 0, i |-> 0, fps |-> <<0, 1>>]

\* The file at the output path before the export: whatever an earlier
\* export left there.
OldFile == [opened |-> FALSE, items |-> << [kind |-> "old"] >>]

\* The scene frame and the active action when the export is called: an
\* action that is also exported, or none.
Entries ==
    { [frame |-> 0, action |-> <<"A">>], [frame |-> FrameSpan, action |-> NoAction] }

\* pskimport is not running
NoImport == [pc |-> "idle"]

\* ------------------------------------------------------------------- Init
Init ==
    /\ caller \in {"psa_export", "build_psa"}
    /\ pc = IF caller = "psa_export" THEN "export" ELSE "build"
    /\ entry \in Entries
    /\ nSeqs \in 0..MaxSeqs
    /\ prefix \in Prefixes
    /\ psaBones = <<>>
    /\ psaSequences = <<>>
    /\ psaKeys = <<>>
    /\ poseBones = <<>>
    /\ frameCurrent = entry.frame
    /\ subframe = <<0, 1>>
    /\ action = entry.action
    /\ saved = [frame |-> 0, action |-> NoAction]
    /\ frameStartIndex = 0
    /\ seqIndex = 0
    /\ cur = NoCur
    /\ processed = <<>>
    /\ file = OldFile
    /\ error = ""
    /\ bones = <<>>
    /\ rootMotion \in BOOLEAN
    /\ imp = NoImport

\* psa_export opening the output file before the model is built
PsaExport_OpenFirst ==
    /\ pc = "export"
    /\ \E selected \in BOOLEAN :
          IF selected
          THEN /\ pc' = "build"
               /\ error' = error
               /\ file' = [opened |-> TRUE, items |-> <<>>]
          ELSE /\ pc' = "failed"
               /\ error' = "No armature selected."
               /\ file' = file
    /\ UNCHANGED << imp, rootMotion, bones >>
    /\ UNCHANGED << caller, entry, nSeqs, prefix, psaBones, psaSequences,
                    psaKeys, poseBones, frameCurrent, subframe, action, saved,
                    frameStartIndex, seqIndex, cur, processed >>

\* psa_export up to the call of build_psa: the armature is looked up, the
\* export sequences and the options are made.
PsaExport ==
    /\ pc = "export"
    /\ \E selected \in BOOLEAN :
          IF selected
          THEN pc' = "build" /\ error' = error
          ELSE pc' = "failed" /\ error' = "No armature selected."
    /\ UNCHANGED << imp, rootMotion, bones >>
    /\ UNCHANGED << caller, entry, nSeqs, prefix, psaBones, psaSequences,
                    psaKeys, poseBones, frameCurrent, subframe, action, saved,
                    frameStartIndex, seqIndex, cur, processed, file >>

\* build_psa up to the sequence loop: the bone lists, the bone records, the
\* saved frame and action.
BuildBones ==
    /\ pc = "build"
    /\ \E n \in 0..MaxBones :
       \E parents \in ParentMaps(n), bad \in 0..n,
          poseOrder \in Permutations1(n), sel \in Selections(n) :
          LET arm == Armature(n, parents, bad)
              bone_names == BoneNames(arm)
              pose == SortPoseBones(bone_names,
                                    [k \in 1..n |-> PoseBonesOf(arm)[poseOrder[k]]])
              built == BuildBoneRecords(arm, sel, 1, <<>>)
          IN  /\ bones' = ExportedBones(arm, sel)
              /\ IF Len(sel) = 0
                 THEN /\ pc' = "failed"
                      /\ error' = "No bones available for export"
                      /\ UNCHANGED << psaBones, poseBones, saved >>
                 ELSE IF built.err # ""
                 THEN /\ pc' = "failed"
                      /\ error' = built.err
                      /\ psaBones' = built.bones
                      /\ poseBones' = [k \in 1..Len(sel) |-> pose[sel[k]]]
                      /\ UNCHANGED saved
                 ELSE /\ pc' = "seq"
                      /\ error' = error
                      /\ psaBones' = built.bones
                      /\ poseBones' = [k \in 1..Len(sel) |-> pose[sel[k]]]
                      /\ saved' = [frame |-> frameCurrent, action |-> action]
    /\ UNCHANGED << imp, rootMotion >>
    /\ UNCHANGED << caller, entry, nSeqs, prefix, psaSequences, psaKeys,
                    frameCurrent, subframe, action, frameStartIndex, seqIndex,
                    cur, processed, file >>

\* options.sequence_name_suffix
Suffix == <<>>

\* The name of an export sequence after prefix and suffix are added and
\* whitespace is stripped.
SequenceName(raw) == Strip(prefix \o raw \o Suffix)

\* What psa_export puts in an export sequence: the action's frame range (its
\* start is not after its end), compression_ratio 1.0, key_quota 0.
ExportSequenceOk(frame_start, frame_end, key_quota, ratio) ==
    caller = "psa_export" =>
        frame_start <= frame_end /\ key_quota = 0 /\ ratio = <<1, 1>>

\* One iteration of the sequence loop, up to the sampling loop: the action is
\* linked, frame_count and frame_step are computed, the sequence record is
\* filled.
BeginSequence ==
    /\ pc = "seq"
    /\ seqIndex < nSeqs
    /\ \E raw \in RawNames, frame_start \in Frames, frame_end \in Frames,
          key_quota \in Quotas, ratio \in Ratios :
          /\ ExportSequenceOk(frame_start, frame_end, key_quota, ratio)
          /\ action' = raw
          /\ LET name == SequenceName(raw)
                 frame_count_raw == Abs(frame_end - frame_start) + 1
                 frame_count ==
                     FrameCount(frame_start, frame_end, key_quota, ratio)
                 frame_step == FrameStep(frame_start, frame_end, frame_count)
             IN  IF ~Encodable(name)
                 THEN /\ pc' = "failed"
                      /\ error' = "SequenceNameNotEncodable"
                      /\ cur' = cur
                 ELSE /\ pc' = "sample"
                      /\ error' = error
                      /\ cur' = [name |-> name,
                                 frame_start |-> frame_start,
                                 frame_end |-> frame_end,
                                 key_quota |-> key_quota,
                                 ratio |-> ratio,
                                 frame_count |-> frame_count,
                                 step |-> frame_step,
                                 frame |-> frame_start * frame_step[2],
                                 i |-> 0,
                                 fps |-> <<frame_count * DefaultFps,
                                           frame_count_raw>>]
    /\ UNCHANGED << imp, rootMotion, bones >>
    /\ UNCHANGED << caller, entry, nSeqs, prefix, psaBones, psaSequences,
                    psaKeys, poseBones, frameCurrent, subframe, saved,
                    frameStartIndex, seqIndex, processed, file >>

\* _get_pose_bone_location_and_rotation: the matrix the key's location and
\* rotation are taken from.  pose_bone.matrix is the bone's pose at the
\* current scene time.
PoseBoneMatrix(pose_bone) ==
    IF pose_bone.parent # NoBone
    THEN "parent.matrix.inverted @ pose_bone.matrix"
    ELSE IF rootMotion
    THEN "matrix_world @ pose_bone.matrix"
    ELSE "pose_bone.matrix"

\* The keys of one sampled frame: one per pose bone, in the order of
\* pose_bones.  A key carries the sequence and sample it was taken for, the
\* bone, and the scene time <<num, den>> its pose was evaluated at.
FrameKeys(frame_int, sub_num, den) ==
    [b \in 1..Len(poseBones) |->
        [seq |-> seqIndex, sample |-> cur.i, bone |-> poseBones[b].name,
         at |-> <<frame_int * den + sub_num, den>>,
         matrix |-> PoseBoneMatrix(poseBones[b]),
         conjugated |-> poseBones[b].parent # NoBone,
         time |-> <<cur.fps[2], cur.fps[1]>>]]

\* One iteration of the sampling loop: frame_set, one key per bone, then
\* frame += frame_step.
Sample ==
    /\ pc = "sample"
    /\ cur.i < cur.frame_count
    /\ LET den == cur.step[2]
           frame_int == PyInt(cur.frame, den)
           sub_num == PyMod1(cur.frame, den)
       IN  /\ frameCurrent' = frame_int
           /\ subframe' = <<sub_num, den>>
           /\ psaKeys' = psaKeys \o FrameKeys(frame_int, sub_num, den)
    /\ cur' = [cur EXCEPT !.frame = @ + cur.step[1], !.i = @ + 1]
    /\ UNCHANGED << imp, rootMotion, bones >>
    /\ UNCHANGED << pc, caller, entry, nSeqs, prefix, psaBones, psaSequences,
                    poseBones, action, saved, frameStartIndex, seqIndex,
                    processed, file, error >>

\* The sequence record as stored in psa.sequences
SequenceRecord ==
    [name |-> cur.name, frame_count |-> cur.frame_count,
     frame_start_index |-> frameStartIndex, fps |-> cur.fps,
     bone_count |-> Len(poseBones), track_time |-> cur.frame_count,
     key_reduction |-> 1]

\* The end of one iteration of the sequence loop: the record is stored under
\* the sequence's name.
EndSequence ==
    /\ pc = "sample"
    /\ cur.i >= cur.frame_count
    /\ frameStartIndex' = frameStartIndex + cur.frame_count
    /\ psaSequences' = DictSet(psaSequences, cur.name, SequenceRecord)
    /\ processed' = Append(processed, cur.name)
    /\ seqIndex' = seqIndex + 1
    /\ cur' = NoCur
    /\ pc' = "seq"
    /\ UNCHANGED << imp, rootMotion, bones >>
    /\ UNCHANGED << caller, entry, nSeqs, prefix, psaBones, psaKeys, poseBones,
                    frameCurrent, subframe, action, saved, file, error >>

\* The end of build_psa with the frame put back but not the action
Restore_FrameOnly ==
    /\ pc = "seq"
    /\ seqIndex >= nSeqs
    /\ frameCurrent' = saved.frame
    /\ subframe' = <<0, 1>>
    /\ pc' = IF caller = "psa_export" THEN "open" ELSE "done"
    /\ UNCHANGED << imp, rootMotion, bones >>
    /\ UNCHANGED << caller, entry, nSeqs, prefix, psaBones, psaSequences,
                    psaKeys, poseBones, action, saved, frameStartIndex,
                    seqIndex, cur, processed, file, error >>

\* After the sequence loop: the saved action and frame are put back and
\* build_psa returns.
Restore ==
    /\ pc = "seq"
    /\ seqIndex >= nSeqs
    /\ action' = saved.action
    /\ frameCurrent' = saved.frame
    /\ subframe' = <<0, 1>>
    /\ pc' = IF caller = "psa_export" THEN "open" ELSE "done"
    /\ UNCHANGED << imp, rootMotion, bones >>
    /\ UNCHANGED << caller, entry, nSeqs, prefix, psaBones, psaSequences,
                    psaKeys, poseBones, saved, frameStartIndex, seqIndex, cur,
                    processed, file, error >>

\* ---------------------------------------------------------------- writing
\* sizeof of a ctypes Structure instance: the bytes fp.write(datum) writes
sizeof(datum) ==
    IF "parent_index" \in DOMAIN datum THEN SizeofBone
    ELSE IF "frame_start_index" \in DOMAIN datum THEN SizeofSequence
    ELSE SizeofKey

\* write_section leaving data_size and data_count of the header unset
write_section_NoCount(fp, name, typed, data_size, data) ==
    fp \o << [kind |-> "section", name |-> name,
              type_flags |-> SectionTypeFlags,
              data_size |-> 0, data_count |-> 0] >>
       \o [i \in 1..Len(data) |->
              [kind |-> "record", size |-> sizeof(data[i]),
               data |-> data[i]]]

\* write_section leaving out the header of a section without records
write_section_SkipEmpty(fp, name, typed, data_size, data) ==
    IF Len(data) = 0 THEN fp
    ELSE fp \o << [kind |-> "section", name |-> name,
                   type_flags |-> SectionTypeFlags,
                   data_size |-> IF typed THEN data_size ELSE 0,
                   data_count |-> IF typed THEN Len(data) ELSE 0] >>
            \o [i \in 1..Len(data) |->
                   [kind |-> "record", size |-> sizeof(data[i]),
                    data |-> data[i]]]

\* write_section: the header, then the records
write_section(fp, name, typed, data_size, data) ==
    fp \o << [kind |-> "section", name |-> name,
              type_flags |-> SectionTypeFlags,
              data_size |-> IF typed THEN data_size ELSE 0,
              data_count |-> IF typed THEN Len(data) ELSE 0] >>
       \o [i \in 1..Len(data) |->
              [kind |-> "record", size |-> sizeof(data[i]),
               data |-> data[i]]]

\* open(path, 'wb'): the file is created or truncated
OpenFile ==
    /\ pc = "open"
    /\ file' = [opened |-> TRUE, items |-> <<>>]
    /\ pc' = "ANIMHEAD"
    /\ UNCHANGED << imp, rootMotion, bones >>
    /\ UNCHANGED << caller, entry, nSeqs, prefix, psaBones, psaSequences,
                    psaKeys, poseBones, frameCurrent, subframe, action, saved,
                    frameStartIndex, seqIndex, cur, processed, error >>

WriteStep(at, items, next) ==
    /\ pc = at
    /\ file' = [file EXCEPT !.items = items]
    /\ pc' = next
    /\ UNCHANGED << imp, rootMotion, bones >>
    /\ UNCHANGED << caller, entry, nSeqs, prefix, psaBones, psaSequences,
                    psaKeys, poseBones, frameCurrent, subframe, action, saved,
                    frameStartIndex, seqIndex, cur, processed, error >>

WriteAnimHead ==
    WriteStep("ANIMHEAD",
              write_section(file.items, "ANIMHEAD", FALSE, 0, <<>>),
              "BONENAMES")

WriteBoneNames ==
    WriteStep("BONENAMES",
              write_section(file.items, "BONENAMES", TRUE, SizeofBone,
                            psaBones),
              "ANIMINFO")

WriteAnimInfo ==
    WriteStep("ANIMINFO",
              write_section(file.items, "ANIMINFO", TRUE, SizeofSequence,
                            DictValues(psaSequences)),
              "ANIMKEYS")

\* The last section; the file is closed and psa_export returns True.
WriteAnimKeys ==
    WriteStep("ANIMKEYS",
              write_section(file.items, "ANIMKEYS", TRUE, SizeofKey, psaKeys),
              "done")

Next ==
    \/ PsaExport
    \/ BuildBones
    \/ BeginSequence
    \/ Sample
    \/ EndSequence
    \/ Restore
    \/ OpenFile
    \/ WriteAnimHead
    \/ WriteBoneNames
    \/ WriteAnimInfo
    \/ WriteAnimKeys

Spec == Init /\ [][Next]_vars

\* ------------------------------------------------ write_psa on any Psa model
\* Psa models as a caller of write_psa may hand them over: any number of
\* bones, sequences and keys, zero included.
WriteBones(n) ==
    [i \in 1..n |->
        [name |-> BoneNamePool[i], parent_index |-> 0, children_count |-> 0]]

WriteSequences(n) ==
    [i \in 1..n |->
        << <<"S", i>>,
           [name |-> <<"S", i>>, frame_count |-> 1,
            frame_start_index |-> i - 1, fps |-> <<DefaultFps, 1>>,
            bone_count |-> 1, track_time |-> 1, key_reduction |-> 1] >>]

WriteKeys(n) ==
    [i \in 1..n |->
        [seq |-> 0, sample |-> i - 1, bone |-> BoneNamePool[1],
         at |-> <<i - 1, 1>>, matrix |-> "pose_bone.matrix",
         conjugated |-> FALSE, time |-> <<1, DefaultFps>>]]

InitWrite ==
    /\ caller = "write_psa"
    /\ pc = "open"
    /\ entry \in Entries
    /\ nSeqs = 0
    /\ prefix = <<>>
    /\ psaBones \in { WriteBones(n) : n \in 0..MaxBones }
    /\ psaSequences \in { WriteSequences(n) : n \in 0..MaxSeqs }
    /\ psaKeys \in { WriteKeys(n) : n \in 0..MaxWriteKeys }
    /\ poseBones = <<>>
    /\ frameCurrent = entry.frame
    /\ subframe = <<0, 1>>
    /\ action = entry.action
    /\ saved = [frame |-> 0, action |-> NoAction]
    /\ frameStartIndex = 0
    /\ seqIndex = 0
    /\ cur = NoCur
    /\ processed = <<>>
    /\ file = OldFile
    /\ error = ""
    /\ bones = <<>>
    /\ rootMotion = FALSE
    /\ imp = NoImport

NextWrite ==
    \/ OpenFile
    \/ WriteAnimHead
    \/ WriteBoneNames
    \/ WriteAnimInfo
    \/ WriteAnimKeys

SpecWrite == InitWrite /\ [][NextWrite]_vars

\* ---------------------------------------------------------------- pskimport
\* A PSK file is a sequence of 4-byte fields, each with the role it was
\* written in and, for the integer fields of a header, its value.
Field(kind, val) == [kind |-> kind, val |-> val]

\* The eight fields of a section header: 20 bytes of name, type_flags,
\* data_size, data_count
HeaderFields(type_flags, data_size, data_count) ==
    << Field("name", 0), Field("name", 0), Field("name", 0),
       Field("name", 0), Field("name", 0),
       Field("type_flags", type_flags),
       Field("data_size", data_size),
       Field("data_count", data_count) >>

\* n vertex records of three floats
VertexFields(n) ==
    [i \in 1..(3 * n) |->
        Field(IF i % 3 = 1 THEN "x" ELSE IF i % 3 = 2 THEN "y" ELSE "z", 0)]

\* The values a type_flags field is drawn from: the magic constant and another
TypeFlags == { SectionTypeFlags, 0 }

\* PSK files: a header with any data_count, v vertex records, a second
\* section header and t records of that section.  v = 0 is the layout of a
\* head section without records followed by the vertex section; v = the
\* first header's data_count is a vertex section directly after its header.
PskFiles ==
    { HeaderFields(m1, SizeofVertex, c) \o VertexFields(v)
        \o HeaderFields(m2, SizeofVertex, t) \o VertexFields(t) :
        m1 \in TypeFlags, c \in 0..MaxVerts, v \in 0..MaxVerts,
        m2 \in TypeFlags, t \in 0..MaxTail }

\* The size of a file in bytes
FileSize(f) == SizeofField * Len(f)

\* The field at a byte offset of a file
FieldAt(f, offset) == f[(offset \div SizeofField) + 1]

\* file.readinto(header) at offset 0: the header's integer fields
ReadInto(f) ==
    [type_flags |-> FieldAt(f, 20).val,
     data_size  |-> FieldAt(f, 24).val,
     data_count |-> FieldAt(f, 28).val]

\* file.read(n) at a position: the number of bytes returned
FileRead(f, pos, n) == IF FileSize(f) - pos < n THEN FileSize(f) - pos ELSE n

\* pskimport is called on a file that can or cannot be opened
ImportCalls ==
    { [pc |-> "open", file |-> f, readable |-> r, count |-> 0, pos |-> 0,
       counter |-> 0, vertices |-> <<>>, callback |-> 0, result |-> "none",
       linked |-> FALSE, error |-> "none"] :
        f \in PskFiles, r \in BOOLEAN }

\* pskimport returns False after error_callback
ReturnFalse(i, err) ==
    [i EXCEPT !.pc = "returned", !.callback = @ + 1, !.result = "False",
              !.error = err]

\* An exception other than IOError leaves pskimport
Raise(i, err) == [i EXCEPT !.pc = "raised", !.error = err]

\* pskimport up to the call of read_psk_data: open the file, read the first
\* header and compare its type_flags
ReadHeader ==
    /\ imp.pc = "open"
    /\ imp' = IF ~imp.readable
              THEN ReturnFalse(imp, "IOError")
              ELSE LET header == ReadInto(imp.file)
                   IN  IF header.type_flags # SectionTypeFlags
                       THEN ReturnFalse([imp EXCEPT !.pos = SizeofSection],
                                        "not a valid PSK file")
                       ELSE [imp EXCEPT !.pc = "read_vertices",
                                        !.pos = SizeofSection,
                                        !.count = header.data_count]
    /\ UNCHANGED << pc, caller, entry, nSeqs, prefix, psaBones, psaSequences,
                    psaKeys, poseBones, frameCurrent, subframe, action, saved,
                    frameStartIndex, seqIndex, cur, processed, file, error,
                    bones, rootMotion >>

\* The bytes one iteration of read_vertices reads with file.read
ReadSize(chunk_datacount) == chunk_datacount * SizeofVertex

\* One iteration of the loop of read_vertices: read, unpack three floats from
\* the start of what was read (struct.error when fewer than 12 bytes came)
ReadVertex ==
    /\ imp.pc = "read_vertices"
    /\ imp.counter < imp.count
    /\ LET got == FileRead(imp.file, imp.pos, ReadSize(imp.count))
       IN  imp' = IF got < SizeofVertex
                  THEN Raise([imp EXCEPT !.pos = @ + got], "struct.error")
                  ELSE [imp EXCEPT !.vertices = Append(@, imp.pos),
                                   !.pos = @ + got,
                                   !.counter = @ + 1]
    /\ UNCHANGED << pc, caller, entry, nSeqs, prefix, psaBones, psaSequences,
                    psaKeys, poseBones, frameCurrent, subframe, action, saved,
                    frameStartIndex, seqIndex, cur, processed, file, error,
                    bones, rootMotion >>

\* read_vertices returns its list to read_psk_data
ReadVerticesReturn ==
    /\ imp.pc = "read_vertices"
    /\ imp.counter = imp.count
    /\ imp' = [imp EXCEPT !.pc = "read_psk_data"]
    /\ UNCHANGED << pc, caller, entry, nSeqs, prefix, psaBones, psaSequences,
                    psaKeys, poseBones, frameCurrent, subframe, action, saved,
                    frameStartIndex, seqIndex, cur, processed, file, error,
                    bones, rootMotion >>

\* The outcomes of the readers read_psk_data calls after read_vertices
\* (read_wedges to read_morph_data): they return, or an IOError or another
\* exception leaves them
ReaderOutcomes == { "return", "IOError", "Exception" }

\* The rest of read_psk_data: the readers after read_vertices, any outcome
ReadRemaining ==
    /\ imp.pc = "read_psk_data"
    /\ \E outcome \in ReaderOutcomes :
          imp' = IF outcome = "return"
                 THEN [imp EXCEPT !.pc = "build"]
                 ELSE IF outcome = "IOError"
                 THEN ReturnFalse(imp, "IOError")
                 ELSE Raise(imp, "Exception")
    /\ UNCHANGED << pc, caller, entry, nSeqs, prefix, psaBones, psaSequences,
                    psaKeys, poseBones, frameCurrent, subframe, action, saved,
                    frameStartIndex, seqIndex, cur, processed, file, error,
                    bones, rootMotion >>

\* pskimport after the file is read: the mesh and armature objects are
\* created and linked to the scene, and True is returned
BuildAndLink ==
    /\ imp.pc = "build"
    /\ imp' = [imp EXCEPT !.pc = "returned", !.linked = TRUE,
                          !.result = "True"]
    /\ UNCHANGED << pc, caller, entry, nSeqs, prefix, psaBones, psaSequences,
                    psaKeys, poseBones, frameCurrent, subframe, action, saved,
                    frameStartIndex, seqIndex, cur, processed, file, error,
                    bones, rootMotion >>

InitImport ==
    /\ caller = "pskimport"
    /\ pc = "idle"
    /\ entry \in Entries
    /\ nSeqs = 0
    /\ prefix = <<>>
    /\ psaBones = <<>>
    /\ psaSequences = <<>>
    /\ psaKeys = <<>>
    /\ poseBones = <<>>
    /\ frameCurrent = entry.frame
    /\ subframe = <<0, 1>>
    /\ action = entry.action
    /\ saved = [frame |-> 0, action |-> NoAction]
    /\ frameStartIndex = 0
    /\ seqIndex = 0
    /\ cur = NoCur
    /\ processed = <<>>
    /\ file = OldFile
    /\ error = ""
    /\ bones = <<>>
    /\ rootMotion = FALSE
    /\ imp \in ImportCalls

NextImport ==
    \/ ReadHeader
    \/ ReadVertex
    \/ ReadVerticesReturn
    \/ ReadRemaining
    \/ BuildAndLink

SpecImport == InitImport /\ [][NextImport]_vars

\* ------------------------------------------------------------------ claims
\* pc = "sample": frame_count and frame_step of the current sequence are
\* computed and its record is filled.
InSequence == pc = "sample"

RawFrameCount == Abs(cur.frame_end - cur.frame_start) + 1

\* The greatest integer not above num/den, for num >= 0, den > 0
FloorOf(num, den) ==
    CHOOSE k \in 0..num : k * den <= num /\ (k + 1) * den > num

\* C1 (as stated): the frame_count stored in the sequence record is
\* max(key_quota, round(raw_frame_count * compression_ratio)).
C1_FrameCountRounded ==
    InSequence =>
        SequenceRecord.frame_count =
            Max(cur.key_quota,
                PyRound(RawFrameCount * cur.ratio[1], cur.ratio[2]))

\* C1 (amended): the frame_count stored in the sequence record is
\* max(key_quota, raw_frame_count * compression_ratio truncated to an
\* integer), the fractional part of the product being dropped, not rounded.
C1_FrameCountTruncated ==
    InSequence =>
        SequenceRecord.frame_count =
            Max(cur.key_quota,
                FloorOf(RawFrameCount * cur.ratio[1], cur.ratio[2]))

\* C1 witness: a record is filled for a sequence whose product
\* raw_frame_count * compression_ratio has fractional part 1/2 or more, and
\* the quota does not decide.
C1_Witness ==
    /\ InSequence
    /\ cur.i = cur.frame_count
    /\ 2 * ((RawFrameCount * cur.ratio[1]) % cur.ratio[2]) >= cur.ratio[2]
    /\ cur.key_quota < cur.frame_count

\* C2 (as stated): frame_count >= 1 and frame_count >= key_quota for every
\* export sequence.
C2_FrameCountAtLeastOne ==
    InSequence =>
        SequenceRecord.frame_count >= 1 /\
        SequenceRecord.frame_count >= cur.key_quota

\* C3 (as stated): for a reversed range the frame_step that advances the
\* sampling frame is strictly negative.
C3_ReversedStepNegative ==
    (InSequence /\ cur.frame_start > cur.frame_end) => cur.step[1] < 0

\* C3 (amended): for a reversed range frame_step is strictly negative when
\* frame_count >= 2 and zero when frame_count = 1; when frame_count = 0 it is
\* positive and no sample is taken.
C3_ReversedStepBySamples ==
    (InSequence /\ cur.frame_start > cur.frame_end) =>
        /\ cur.frame_count >= 2 =>
              cur.step[1] < 0 /\
              cur.step[1] * (cur.frame_count - 1) =
                  (cur.frame_end - cur.frame_start) * cur.step[2]
        /\ cur.frame_count = 1 => cur.step[1] = 0
        /\ cur.frame_count = 0 => cur.step[1] > 0 /\ cur.i = 0

\* C3 witness: a reversed range of at least two samples, the step having
\* advanced the frame.
C3_Witness ==
    /\ InSequence
    /\ cur.frame_start > cur.frame_end
    /\ cur.frame_count >= 2
    /\ cur.i >= 2

\* The time of sample i that the claims state: start + i * frame_step with
\* frame_step = (end - start)/(frame_count - 1), 0 for frame_count <= 1; as
\* <<numerator, denominator>>.
StatedSampleTime(i) ==
    IF cur.frame_count >= 2
    THEN << cur.frame_start * (cur.frame_count - 1)
                + i * (cur.frame_end - cur.frame_start),
            cur.frame_count - 1 >>
    ELSE << cur.frame_start, 1 >>

\* The scene time frame_set was last given: frame + subframe
SceneTime == << frameCurrent * subframe[2] + subframe[1], subframe[2] >>

\* C4 (as stated): the pose of sample i is evaluated at start + i*frame_step:
\* after the i-th frame_set the scene's frame plus subframe is that time.
C4_SampleTime ==
    (InSequence /\ cur.i >= 1) =>
        SceneTime[1] * StatedSampleTime(cur.i - 1)[2] =
            StatedSampleTime(cur.i - 1)[1] * SceneTime[2]

\* build_psa has returned its Psa (psa_export goes on to write it)
BuildReturned ==
    pc \in {"open", "ANIMHEAD", "BONENAMES", "ANIMINFO", "ANIMKEYS", "done"}

\* C5 (as stated): the sequence records, in emission order, partition the key
\* array: the first starts at 0, each next one starts where the one before
\* ends, and the last ends at the end of the key array.
C5_Partition ==
    BuildReturned =>
        LET recs == DictValues(psaSequences)
            n == Len(recs)
        IN  n >= 1 =>
              /\ recs[1].frame_start_index = 0
              /\ \A i \in 2..n :
                    recs[i].frame_start_index =
                        recs[i - 1].frame_start_index + recs[i - 1].frame_count
              /\ (recs[n].frame_start_index + recs[n].frame_count)
                    * recs[n].bone_count = Len(psaKeys)

\* C6: the key of bone b at sample f of a sequence record with
\* frame_start_index S is at index (S + f) * B + b of the key array (B bones):
\* that key was taken for that sequence, that sample and the bone of bone
\* record b.
C6_KeyOrder ==
    \A r \in 1..Len(psaSequences) :
        LET rec == psaSequences[r][2]
            B == Len(psaBones)
        IN  \A f \in 0..(rec.frame_count - 1), b \in 0..(B - 1) :
                LET idx == (rec.frame_start_index + f) * B + b
                IN  /\ idx < Len(psaKeys)
                    /\ psaKeys[idx + 1].bone = psaBones[b + 1].name
                    /\ psaKeys[idx + 1].sample = f
                    /\ processed[psaKeys[idx + 1].seq + 1] = rec.name

\* C6 witness: two bones, two sequence records of two or more samples each,
\* all keys built.
C6_Witness ==
    /\ pc = "done"
    /\ Len(psaBones) = 2
    /\ Len(psaSequences) = 2
    /\ \A r \in 1..Len(psaSequences) : psaSequences[r][2].frame_count >= 2

\* C7: when build_psa returns normally the scene's current frame and the
\* active action are those of the time of the call.
C7_RestoredOnReturn ==
    BuildReturned =>
        frameCurrent = entry.frame /\ action = entry.action

\* C7 witness: build_psa has returned after two sequences, neither of them
\* on the action that was active at the call, and a pose was evaluated at
\* another time than the frame of the call.
C7_Witness ==
    /\ pc = "done"
    /\ caller = "build_psa"
    /\ Len(processed) = 2
    /\ entry.action = NoAction
    /\ \E k \in 1..Len(psaKeys) :
          psaKeys[k].at[1] # entry.frame * psaKeys[k].at[2]

\* C8 (as stated): when the export fails the scene's current frame and the
\* active action are those of the time of the call.
C8_RestoredOnError ==
    pc = "failed" =>
        frameCurrent = entry.frame /\ action = entry.action

\* C9: the output file is opened only after build_psa returned its model;
\* when the export fails the output path is as it was, neither created nor
\* truncated nor written.
C9_NoFileOnFailure ==
    /\ pc = "failed" => file = OldFile
    /\ file # OldFile => BuildReturned /\ pc # "open" /\ error = ""

\* C9 witness: psa_export failed on the name of a sequence after keys of an
\* earlier sequence were built.
C9_Witness ==
    /\ pc = "failed"
    /\ caller = "psa_export"
    /\ error = "SequenceNameNotEncodable"
    /\ Len(psaKeys) > 0

IsSection(item) == item.kind = "section"

IsRecord(item) == item.kind = "record"

\* The section headers in the file, in the order they were written
SectionHeaders == SelectSeq(file.items, IsSection)

SectionOrder == << "ANIMHEAD", "BONENAMES", "ANIMINFO", "ANIMKEYS" >>

\* C10: write_psa writes the four section headers ANIMHEAD, BONENAMES,
\* ANIMINFO, ANIMKEYS in this order and no other, for every model; a section
\* of an empty list has element count 0 and no records.
C10_FourSections ==
    file.opened =>
        /\ Len(SectionHeaders) <= 4
        /\ \A i \in 1..Len(SectionHeaders) :
              SectionHeaders[i].name = SectionOrder[i]
        /\ pc = "done" =>
              /\ Len(SectionHeaders) = 4
              /\ SectionHeaders[1].data_count = 0
              /\ SectionHeaders[2].data_count = Len(psaBones)
              /\ SectionHeaders[3].data_count = Len(psaSequences)
              /\ SectionHeaders[4].data_count = Len(psaKeys)
              /\ Len(SelectSeq(file.items, IsRecord)) =
                    Len(psaBones) + Len(psaSequences) + Len(psaKeys)

\* C10 witness: write_psa has written a model without bones, sequences and
\* keys.
C10_Witness ==
    /\ pc = "done"
    /\ file.opened
    /\ psaBones = <<>>
    /\ psaSequences = <<>>
    /\ psaKeys = <<>>

\* The bytes of the records that follow the header at position p of the file,
\* up to the next header
RECURSIVE RecordBytesFrom(_)
RecordBytesFrom(p) ==
    IF p > Len(file.items) \/ IsSection(file.items[p]) THEN 0
    ELSE file.items[p].size + RecordBytesFrom(p + 1)

RECURSIVE RecordCountFrom(_)
RecordCountFrom(p) ==
    IF p > Len(file.items) \/ IsSection(file.items[p]) THEN 0
    ELSE 1 + RecordCountFrom(p + 1)

\* Byte size of the record type of each section; 0 for the header-only one
SectionRecordSize(name) ==
    IF name = "BONENAMES" THEN SizeofBone
    ELSE IF name = "ANIMINFO" THEN SizeofSequence
    ELSE IF name = "ANIMKEYS" THEN SizeofKey
    ELSE 0

\* C11: every section written has type flag 1999801, and the record bytes
\* after its header are its declared element size times its declared element
\* count; the size is that of the record type and the count the number of
\* records, both 0 for the header-only ANIMHEAD section.
C11_SectionBytes ==
    file.opened =>
        \A p \in 1..Len(file.items) :
            IsSection(file.items[p]) =>
                LET h == file.items[p]
                IN  /\ h.type_flags = SectionTypeFlags
                    /\ RecordBytesFrom(p + 1) = h.data_size * h.data_count
                    /\ h.data_size = SectionRecordSize(h.name)
                    /\ h.data_count = RecordCountFrom(p + 1)

\* C11 witness: the file is complete with records in each of the three typed
\* sections.
C11_Witness ==
    /\ pc = "done"
    /\ file.opened
    /\ Len(psaBones) >= 1
    /\ Len(psaSequences) >= 1
    /\ Len(psaKeys) >= 2

\* The bone loop of build_psa has completed: psa.bones holds one record per
\* exported bone.
BonesBuilt ==
    \/ pc \in {"seq", "sample"}
    \/ BuildReturned /\ caller # "write_psa"
    \/ pc = "failed" /\ error = "SequenceNameNotEncodable"

\* build_psa is past its bone loop, with at least one exported bone and
\* every bone name encodable.
BoneLoopOver ==
    /\ caller # "write_psa"
    /\ pc \notin {"export", "build"}
    /\ error # "No armature selected."
    /\ Len(bones) > 0
    /\ \A k \in 1..Len(bones) : Encodable(bones[k].name)

\* The records whose parent_index is i (0-based), counted from the records
ParentIndexCount(i) ==
    Cardinality({ j \in 1..Len(psaBones) : psaBones[j].parent_index = i })

\* The exported bones whose parent is the exported bone at position k
ChildrenOf(k) ==
    { j \in 1..Len(bones) : bones[j].parent = bones[k].name }

\* The exported bones without an exported parent
Parentless ==
    { j \in 1..Len(bones) :
        \A k \in 1..Len(bones) : bones[k].name # bones[j].parent }

\* No exported bone comes before its exported parent
ParentsFirst ==
    \A j, k \in 1..Len(bones) : bones[j].parent = bones[k].name => k < j

KeyTransform(key) ==
    IF key.matrix = "bone.matrix_local"
    THEN << key.matrix, key.bone, key.conjugated >>
    ELSE << key.matrix, key.bone, key.conjugated, key.seq, key.at >>

\* The keys of root bones (pose bones without parent: the rotation of
\* any other bone's key is conjugated)
RootKeys ==
    { k \in 1..Len(psaKeys) : ~psaKeys[k].conjugated }

\* C15 (as stated): without root motion the location and rotation of a root
\* bone's keys are the same in every sampled frame of a sequence; with root
\* motion they are the posed transform combined with the armature object's
\* world transform.
C15_RootLocked ==
    /\ ~rootMotion =>
          \A k1, k2 \in RootKeys :
              (psaKeys[k1].seq = psaKeys[k2].seq /\
               psaKeys[k1].bone = psaKeys[k2].bone) =>
                  KeyTransform(psaKeys[k1]) = KeyTransform(psaKeys[k2])
    /\ rootMotion =>
          \A k \in RootKeys :
              psaKeys[k].matrix = "matrix_world @ pose_bone.matrix"

\* C16 (as stated): build_psa produces exactly one sequence record per
\* export sequence, in the order the sequences were processed, also when two
\* sequences have the same name; and every key of the key array lies in the
\* range of some sequence record.
C16_OneRecordPerSequence ==
    BuildReturned =>
        /\ Len(psaSequences) = Len(processed)
        /\ \A r \in 1..Len(psaSequences) : psaSequences[r][1] = processed[r]
        /\ \A k \in 0..(Len(psaKeys) - 1) :
              \E r \in 1..Len(psaSequences) :
                  LET rec == psaSequences[r][2]
                  IN  /\ rec.frame_start_index * rec.bone_count <= k
                      /\ k < (rec.frame_start_index + rec.frame_count)
                                * rec.bone_count

\* A header of the file whose type_flags is not the magic constant
BadMagic ==
    \E k \in 1..Len(imp.file) :
        imp.file[k].kind = "type_flags" /\ imp.file[k].val # SectionTypeFlags

\* C13 (as stated): when any section header of the file, the first or a
\* later one, has a type_flags other than 1999801, no data of the file is
\* parsed, no object is created or linked, and pskimport ends by returning
\* False after calling error_callback.
C13_BadMagicFails ==
    (imp.pc # "idle" /\ imp.readable /\ BadMagic) =>
        /\ imp.vertices = <<>>
        /\ ~imp.linked
        /\ imp.pc \in {"returned", "raised"} =>
              imp.pc = "returned" /\ imp.result = "False" /\ imp.callback = 1

\* The vertex records directly after the first header are as many as the
\* header's data_count
VertexSectionAfterHeader ==
    LET n == ReadInto(imp.file).data_count
    IN  /\ \A k \in 1..(3 * n) :
              FieldAt(imp.file, SizeofSection + SizeofField * (k - 1)).kind
                  \in {"x", "y", "z"}
        /\ FieldAt(imp.file, SizeofSection + SizeofVertex * n).kind = "name"

\* C14 (as stated): reading a vertex section of N records after its header
\* consumes 12 * N bytes and yields the N vertices of the section, so that
\* the position afterwards is the start of the next header.
C14_VertexBytes ==
    (imp.pc # "idle" /\ VertexSectionAfterHeader) =>
        /\ imp.error # "struct.error"
        /\ imp.pc = "read_psk_data" =>
              /\ imp.pos = SizeofSection + SizeofVertex * imp.count
              /\ Len(imp.vertices) = imp.count
              /\ \A k \in 1..Len(imp.vertices) :
                    imp.vertices[k] = SizeofSection + SizeofVertex * (k - 1)

====
